---- MODULE Spec2Model ----
(***************************************************************************)
(* A model of ask-cli (src/src/main.rs): the interactive session loop, the *)
(* direct-execution classifier, and the confirmation state machine that    *)
(* drives every model-proposed command through accept/decline/skip/divert. *)
(*                                                                         *)
(* Strings are sequences of one-character strings, so that trimming, case  *)
(* folding and prefix tests are computed as the code computes them.        *)
(***************************************************************************)
EXTENDS Integers, Sequences, FiniteSets, TLC

(***************************************************************************)
(* Bounds of the model.                                                    *)
(***************************************************************************)
\* Longest history the session is followed to.
MaxHistory == 2
\* Most lines in one model response.
MaxLines == 2
\* Most unrecognized confirmation tokens followed within one input line.
MaxInvalid == 1

(***************************************************************************)
(* Strings.                                                                *)
(***************************************************************************)
NL == "\n"
ESC == "ESC"             \* stands for the escape control character U+001B
BT == "BT"               \* stands for the backtick character

IsWhitespace(c) == c \in {" ", "\t", NL}

RECURSIVE TrimStart(_)
TrimStart(s) ==
    IF s = <<>> THEN <<>>
    ELSE IF IsWhitespace(Head(s)) THEN TrimStart(Tail(s)) ELSE s

RECURSIVE TrimEnd(_)
TrimEnd(s) ==
    IF s = <<>> THEN <<>>
    ELSE IF IsWhitespace(s[Len(s)]) THEN TrimEnd(SubSeq(s, 1, Len(s) - 1)) ELSE s

\* str::trim
Trim(s) == TrimEnd(TrimStart(s))

\* str::starts_with / str::ends_with / str::contains(char)
StartsWith(s, p) == Len(s) >= Len(p) /\ SubSeq(s, 1, Len(p)) = p
EndsWith(s, p) == Len(s) >= Len(p) /\ SubSeq(s, Len(s) - Len(p) + 1, Len(s)) = p
ContainsChar(s, c) == \E i \in 1..Len(s) : s[i] = c

UpperCase == <<"A","B","C","D","E","F","G","H","I","J","K","L","M",
               "N","O","P","Q","R","S","T","U","V","W","X","Y","Z">>
LowerCase == <<"a","b","c","d","e","f","g","h","i","j","k","l","m",
               "n","o","p","q","r","s","t","u","v","w","x","y","z">>

LowerChar(c) ==
    IF \E i \in 1..26 : UpperCase[i] = c
    THEN LowerCase[CHOOSE i \in 1..26 : UpperCase[i] = c]
    ELSE c

\* str::to_lowercase
ToLower(s) == [i \in 1..Len(s) |-> LowerChar(s[i])]

UpperChar(c) ==
    IF \E i \in 1..26 : LowerCase[i] = c
    THEN UpperCase[CHOOSE i \in 1..26 : LowerCase[i] = c]
    ELSE c

\* The same text typed in capital letters.
ToUpper(s) == [i \in 1..Len(s) |-> UpperChar(s[i])]

\* cmd.split('.').last(): the text after the last dot, the whole text if none
LastDotSegment(s) ==
    LET dots == {i \in 1..Len(s) : s[i] = "."}
    IN  IF dots = {} THEN s
        ELSE SubSeq(s, (CHOOSE i \in dots : \A j \in dots : j <= i) + 1, Len(s))

(***************************************************************************)
(* The direct-execution classifier.                                        *)
(***************************************************************************)
\* is_script_execution: the explicit interpreter prefixes, and ./
script_prefixes ==
    { <<"p","y","t","h","o","n"," ">>, <<"p","y","t","h","o","n","3"," ">>,
      <<"n","o","d","e"," ">>, <<"r","u","b","y"," ">>,
      <<"p","e","r","l"," ">>, <<"p","h","p"," ">>, <<"b","a","s","h"," ">>,
      <<"s","h"," ">>, <<"z","s","h"," ">>, <<".","/">> }

\* is_script_execution: the extensions of a script file
script_extensions ==
    { <<"s","h">>, <<"b","a","s","h">>, <<"z","s","h">>, <<"p","y">>,
      <<"p","y","t","h","o","n">>, <<"j","s">>, <<"m","j","s">>, <<"t","s">>,
      <<"r","b">>, <<"r","u","b","y">>, <<"p","l">>, <<"p","e","r","l">>,
      <<"p","h","p">>, <<"r">>, <<"R">>, <<"g","o">>, <<"r","s">>,
      <<"j","a","v","a">>, <<"c","l","a","s","s">>, <<"s","w","i","f","t">>,
      <<"k","t">> }

\* is_script_execution, without the test of the extension.
is_script_execution_PrefixOnly(cmd0) ==
    \E p \in script_prefixes : StartsWith(Trim(cmd0), p)

is_script_execution(cmd0) ==
    LET cmd == Trim(cmd0)
    IN  \/ \E p \in script_prefixes : StartsWith(cmd, p)
        \/ LastDotSegment(cmd) \in script_extensions

\* is_safe_direct_command: the allowlist
safe_commands ==
    { <<"l","s">>, <<"l","l">>, <<"l","a">>, <<"d","i","r">>,
      <<"p","w","d">>, <<"t","r","e","e">>, <<"c","a","t">>,
      <<"h","e","a","d">>, <<"t","a","i","l">>, <<"l","e","s","s">>,
      <<"m","o","r","e">>, <<"w","c">>, <<"f","i","l","e">>,
      <<"s","t","a","t">>, <<"d","a","t","e">>, <<"u","p","t","i","m","e">>,
      <<"w","h","o","a","m","i">>, <<"h","o","s","t","n","a","m","e">>,
      <<"u","n","a","m","e">>, <<"i","d">>, <<"d","f">>, <<"d","u">>,
      <<"f","r","e","e">>, <<"t","o","p">>, <<"p","s">>, <<"w","h","o">>,
      <<"w">>, <<"i","f","c","o","n","f","i","g">>, <<"p","i","n","g">>,
      <<"n","e","t","s","t","a","t">>, <<"c","u","r","l">>,
      <<"w","g","e","t">>, <<"d","i","g">>,
      <<"n","s","l","o","o","k","u","p">>, <<"e","n","v">>,
      <<"p","r","i","n","t","e","n","v">>, <<"e","c","h","o">>,
      <<"w","h","i","c","h">>, <<"t","y","p","e">>, <<"a","l","i","a","s">>,
      <<"g","i","t"," ","s","t","a","t","u","s">>,
      <<"g","i","t"," ","l","o","g">>, <<"g","i","t"," ","d","i","f","f">>,
      <<"g","i","t"," ","b","r","a","n","c","h">>,
      <<"g","i","t"," ","r","e","m","o","t","e">>,
      <<"b","r","e","w"," ","l","i","s","t">>,
      <<"n","p","m"," ","l","i","s","t">>,
      <<"p","i","p"," ","l","i","s","t">>,
      <<"c","a","r","g","o"," ","s","e","a","r","c","h">>,
      <<"h","i","s","t","o","r","y">>, <<"h","e","l","p">>, <<"m","a","n">> }

\* is_safe_direct_command: the commands accepted bare or followed by a space
special_commands ==
    { <<"l","s">>, <<"c","d">>, <<"c","a","t">>, <<"e","c","h","o">>,
      <<"h","e","a","d">>, <<"t","a","i","l">>, <<"g","r","e","p">>,
      <<"f","i","n","d">>, <<"w","c">>, <<"d","i","f","f">> }

Space == <<" ">>
S_pwd == <<"p","w","d">>

is_safe_direct_command(cmd) ==
    \/ is_script_execution(cmd)
    \/ LET cmd_lower == ToLower(Trim(cmd))
       IN  \/ \E c \in special_commands :
                 StartsWith(cmd_lower, c \o Space) \/ cmd_lower = c
           \/ StartsWith(cmd_lower, S_pwd)
           \/ cmd_lower \in safe_commands

S_ls == <<"l","s">>
S_ls_l == <<"l","s"," ","-","l">>
S_cd == <<"c","d">>

\* command_to_run, the interpreter put before a script name even when the
\* input has arguments.
command_to_run_WithArguments(input) ==
    IF Trim(input) = S_ls THEN S_ls_l
    ELSE IF is_script_execution(input)
    THEN LET script == Trim(input)
         IN  IF EndsWith(script, <<".","p","y">>)
               THEN <<"p","y","t","h","o","n","3"," ">> \o script
             ELSE IF EndsWith(script, <<".","j","s">>) \/ EndsWith(script, <<".","m","j","s">>)
               THEN <<"n","o","d","e"," ">> \o script
             ELSE IF EndsWith(script, <<".","r","b">>)
               THEN <<"r","u","b","y"," ">> \o script
             ELSE IF EndsWith(script, <<".","s","h">>) \/ EndsWith(script, <<".","b","a","s","h">>)
               THEN <<"b","a","s","h"," ">> \o script
             ELSE IF EndsWith(script, <<".","p","l">>)
               THEN <<"p","e","r","l"," ">> \o script
             ELSE IF EndsWith(script, <<".","p","h","p">>)
               THEN <<"p","h","p"," ">> \o script
             ELSE input
    ELSE input

\* run_interactive_mode: the command actually run for a direct input
command_to_run(input) ==
    IF Trim(input) = S_ls THEN S_ls_l
    ELSE IF is_script_execution(input) /\ ~ContainsChar(input, " ")
    THEN LET script == Trim(input)
         IN  IF EndsWith(script, <<".","p","y">>)
               THEN <<"p","y","t","h","o","n","3"," ">> \o script
             ELSE IF EndsWith(script, <<".","j","s">>) \/ EndsWith(script, <<".","m","j","s">>)
               THEN <<"n","o","d","e"," ">> \o script
             ELSE IF EndsWith(script, <<".","r","b">>)
               THEN <<"r","u","b","y"," ">> \o script
             ELSE IF EndsWith(script, <<".","s","h">>) \/ EndsWith(script, <<".","b","a","s","h">>)
               THEN <<"b","a","s","h"," ">> \o script
             ELSE IF EndsWith(script, <<".","p","l">>)
               THEN <<"p","e","r","l"," ">> \o script
             ELSE IF EndsWith(script, <<".","p","h","p">>)
               THEN <<"p","h","p"," ">> \o script
             ELSE input
    ELSE input

(***************************************************************************)
(* The inputs the environment can supply.                                  *)
(***************************************************************************)
S_q == <<"q">>
S_exit == <<"e","x","i","t">>
S_quit == <<"q","u","i","t">>
S_dot == <<".">>
S_dotdot == <<".",".">>
S_clear == <<"c","l","e","a","r">>
S_finder == <<"f","i","n","d","e","r">>
S_cd_dotdot == <<"c","d"," ",".",".">>
S_changed_to == <<"C","h","a","n","g","e","d"," ","t","o",":"," ">>
S_unknown == <<"u","n","k","n","o","w","n">>

\* Lines typed at the session prompt, as rl.readline returns them.
InputLines ==
    { <<" ">>, S_q, S_exit, S_dot, S_dotdot, S_clear, S_finder,
      S_ls, <<"c","d"," ","d">>, <<"a",".","p","y">>, <<"h","i">> }

\* Prompts given on the command line (single prompt mode).
ArgPrompts == { <<"h","i">> }

\* Working directories, and the one the process starts in.
Dirs == { <<"/">>, <<"/","d">> }
InitialDir == <<"/">>

\* Captured outputs of a shell command that exits with status zero.
Outputs == { <<>>, <<"o">> }

\* Lines of a model response, as content.lines() yields them.
ResponseLines ==
    { <<" ">>, <<BT,BT,BT>>, <<"#","h">>, <<"#",BT,BT,BT>>, <<"a">>, <<"b"," ">> }

RECURSIVE SeqsUpTo(_, _)
SeqsUpTo(S, n) ==
    IF n = 0 THEN { <<>> }
    ELSE LET shorter == SeqsUpTo(S, n - 1)
         IN  shorter \cup { Append(s, x) : s \in shorter, x \in S }

\* Contents of a model response.
Contents == SeqsUpTo(ResponseLines, MaxLines)

\* Lines read at a confirmation prompt, as read_line returns them; the empty
\* line is end-of-input.
ConfirmLines ==
    { <<>>, <<NL>>, <<"y",NL>>, <<" ","Y","E","S"," ",NL>>,
      <<"n",NL>>, <<"N","O",NL>>, <<"s",NL>>, <<"S","k","i","p",NL>>,
      <<"i",NL>>, <<"I","n","s","t","r","u","c","t",NL>>,
      <<"x",NL>>, <<"y","e",NL>>, <<"y",ESC,NL>>, <<ESC,"i",NL>> }

\* Lines read at the enter> prompt of a diversion.
EnterLines == { <<>>, <<" ",NL>>, <<" ","p","w","d",NL>> }

(***************************************************************************)
(* The state of the program.                                               *)
(***************************************************************************)
VARIABLES
    mode,               \* run: "interactive" or "single" (args.prompt)
    read,               \* what rl.readline() returned for this iteration:
                        \* "Line", "Interrupted", "Eof", "Error"; "none"
                        \* before the first
    pc,                 \* where the program waits: "readline", "model",
                        \* "confirm", "enter", "shell", or "done"
    ret,                \* what run returned: "none", "Ok", or the error
    history,            \* run_interactive_mode: Vec<ConversationContext>
    cwd,                \* the current working directory
    input,              \* the trimmed input line being processed
    context,            \* process_prompt_with_context: the context message
    content,            \* process_prompt_with_context: the lines of the reply
    commands,           \* process_prompt_with_context: commands
    idx,                \* position of the for loop over commands
    diverted,           \* TRUE inside the Instruct arm (second confirm)
    executed_commands,  \* process_prompt_with_context: executed_commands
    command_outputs,    \* process_prompt_with_context: command_outputs
    running,            \* the command the Shell Runner is running
    result,             \* what process_prompt_with_context returned
    io                  \* prompts, answers and shell runs of this input line

vars == << mode, read, pc, ret, history, cwd, input, context, content, commands, idx, diverted,
           executed_commands, command_outputs, running, result, io >>

NoCommand == [cmd |-> <<>>, kind |-> "none"]

\* struct ConversationContext
ConversationContext(p, cs, os) == [prompt |-> p, commands |-> cs, outputs |-> os]

Event(e, i, a) == [ev |-> e, idx |-> i, arg |-> a]

Init ==
    /\ \/ mode = "interactive" /\ pc = "readline" /\ input = <<>>
       \/ mode = "single" /\ pc = "model" /\ input \in ArgPrompts
    /\ read = "none"
    /\ ret = "none"
    /\ history = <<>>
    /\ cwd = InitialDir
    /\ context = <<>>
    /\ content = <<>>
    /\ commands = <<>>
    /\ idx = 0
    /\ diverted = FALSE
    /\ executed_commands = <<>>
    /\ command_outputs = <<>>
    /\ running = NoCommand
    /\ result = "none"
    /\ io = <<>>

(***************************************************************************)
(* parse_commands and confirm, as functions.                               *)
(***************************************************************************)
S_fence == <<BT,BT,BT>>

RECURSIVE FilterLines(_)
FilterLines(ls) ==
    IF ls = <<>> THEN <<>>
    ELSE LET line == Trim(Head(ls))
             rest == FilterLines(Tail(ls))
         IN  IF line # <<>> /\ ~StartsWith(line, S_fence) /\ ~EndsWith(line, S_fence)
             THEN <<line>> \o rest
             ELSE rest

parse_commands(lines) == FilterLines(lines)

is_comment(command) == StartsWith(command, <<"#">>)

all_conversational(cs) == \A i \in 1..Len(cs) : is_comment(cs[i])

\* confirm_response, without the test for the escape character.
confirm_response_NoEscape(line) ==
    LET trimmed == ToLower(Trim(line))
    IN  IF trimmed \in { <<>>, <<"y">>, <<"y","e","s">> } THEN "Yes"
        ELSE IF trimmed \in { <<"n">>, <<"n","o">> } THEN "No"
        ELSE IF trimmed \in { <<"s">>, <<"s","k","i","p">> } THEN "Skip"
        ELSE IF trimmed \in { <<"i">>, <<"i","n","s","t","r","u","c","t">> }
             THEN "Instruct"
        ELSE "Invalid"

\* confirm_response, the end of input taken for a refusal.
confirm_response_EofDeclines(line) ==
    IF ContainsChar(line, ESC) \/ line = <<>> THEN "No"
    ELSE LET trimmed == ToLower(Trim(line))
         IN  IF trimmed \in { <<>>, <<"y">>, <<"y","e","s">> } THEN "Yes"
             ELSE IF trimmed \in { <<"n">>, <<"n","o">> } THEN "No"
             ELSE IF trimmed \in { <<"s">>, <<"s","k","i","p">> } THEN "Skip"
             ELSE IF trimmed \in { <<"i">>, <<"i","n","s","t","r","u","c","t">> }
                  THEN "Instruct"
             ELSE "Invalid"

\* confirm: the ConfirmResponse a line resolves to, "Invalid" when confirm
\* prints the hint and calls itself again.
confirm_response(line) ==
    IF ContainsChar(line, ESC) THEN "No"
    ELSE LET trimmed == ToLower(Trim(line))
         IN  IF trimmed \in { <<>>, <<"y">>, <<"y","e","s">> } THEN "Yes"
             ELSE IF trimmed \in { <<"n">>, <<"n","o">> } THEN "No"
             ELSE IF trimmed \in { <<"s">>, <<"s","k","i","p">> } THEN "Skip"
             ELSE IF trimmed \in { <<"i">>, <<"i","n","s","t","r","u","c","t">> }
                  THEN "Instruct"
             ELSE "Invalid"

(***************************************************************************)
(* The History Manager: estimate_tokens and compact_history.               *)
(*                                                                         *)
(* String::len counts bytes and &output[..200] slices bytes, so a text     *)
(* carries the width of its characters: EACUTE takes two bytes, every      *)
(* other character one.                                                    *)
(***************************************************************************)
MAX_CONTEXT_TOKENS == 3000
TOKEN_ESTIMATE_RATIO == 4

EACUTE == "EACUTE"       \* stands for a two-byte character such as U+00E9

\* String::len: the length in bytes
str_len(s) == Len(s) + Cardinality({ i \in 1..Len(s) : s[i] = EACUTE })

\* str::is_char_boundary: byte n is where a character starts, or the end
is_char_boundary(s, n) ==
    \E k \in 0..Len(s) : k <= n /\ str_len(SubSeq(s, 1, k)) = n

\* &s[..n], defined when n is a character boundary
slice_to(s, n) ==
    SubSeq(s, 1, CHOOSE k \in 0..Len(s) : k <= n /\ str_len(SubSeq(s, 1, k)) = n)

estimate_tokens(text) == str_len(text) \div TOKEN_ESTIMATE_RATIO

S_header ==
    <<"P","r","e","v","i","o","u","s"," ","c","o","m","m","a","n","d","s"," ",
      "a","n","d"," ","o","u","t","p","u","t","s"," ","i","n"," ","t","h","i",
      "s"," ","s","e","s","s","i","o","n",":",NL,NL>>
S_note_showing ==
    <<"(","N","o","t","e",":"," ","S","h","o","w","i","n","g"," ","r","e","c",
      "e","n","t"," ">>
S_note_of == <<" ","o","f"," ">>
S_note_total ==
    <<" ","t","o","t","a","l"," ","i","n","t","e","r","a","c","t","i","o","n",
      "s"," ","d","u","e"," ","t","o"," ","l","e","n","g","t","h",")",NL,NL>>
S_truncated == <<".",".","."," ","(","t","r","u","n","c","a","t","e","d",")">>
S_user == <<"U","s","e","r",":"," ">>
S_command == <<"C","o","m","m","a","n","d",":"," ">>
S_output == <<"O","u","t","p","u","t",":"," ">>

Digits == <<"0","1","2","3","4","5","6","7","8","9">>

\* format!("{}", n) for a usize
RECURSIVE ToDecimal(_)
ToDecimal(n) ==
    IF n < 10 THEN << Digits[n + 1] >>
    ELSE Append(ToDecimal(n \div 10), Digits[(n % 10) + 1])

\* What a piece of compact_history gives: a text, or a panic of the slice.
Text(t) == [panics |-> FALSE, text |-> t]
Panics == [panics |-> TRUE, text |-> <<>>]

\* One "Command: <cmd>\n" line for each command
RECURSIVE command_lines(_)
command_lines(cs) ==
    IF cs = <<>> THEN <<>>
    ELSE S_command \o Head(cs) \o <<NL>> \o command_lines(Tail(cs))

\* The "Output: <output>\n" line of one output, none for an empty output
output_line(output) ==
    IF output = <<>> THEN Text(<<>>)
    ELSE IF str_len(output) > 200
    THEN IF is_char_boundary(output, 200)
         THEN Text(S_output \o slice_to(output, 200) \o S_truncated \o <<NL>>)
         ELSE Panics
    ELSE Text(S_output \o output \o <<NL>>)

RECURSIVE output_lines(_)
output_lines(os) ==
    IF os = <<>> THEN Text(<<>>)
    ELSE LET first == output_line(Head(os))
         IN  IF first.panics THEN Panics
             ELSE LET rest == output_lines(Tail(os))
                  IN  IF rest.panics THEN Panics
                      ELSE Text(first.text \o rest.text)

\* ctx_str: the block of one turn
ctx_str(ctx) ==
    LET outs == output_lines(ctx.outputs)
    IN  IF outs.panics THEN Panics
        ELSE Text(S_user \o ctx.prompt \o <<NL>> \o command_lines(ctx.commands)
                  \o outs.text \o <<NL>>)

\* The loop over history.iter().rev(), at turn i with the blocks pushed so
\* far: it pushes while the ceiling is not exceeded, and breaks when it is.
RECURSIVE contexts_to_include(_, _, _, _)
contexts_to_include(hist, i, total_tokens, pushed) ==
    IF i = 0 THEN [panics |-> FALSE, blocks |-> pushed]
    ELSE LET block == ctx_str(hist[i])
         IN  IF block.panics THEN [panics |-> TRUE, blocks |-> <<>>]
             ELSE LET ctx_tokens == estimate_tokens(block.text)
                  IN  IF total_tokens + ctx_tokens > MAX_CONTEXT_TOKENS
                      THEN [panics |-> FALSE, blocks |-> pushed]
                      ELSE contexts_to_include(hist, i - 1,
                               total_tokens + ctx_tokens, Append(pushed, block.text))

\* Vec::reverse
Reverse(s) == [i \in 1..Len(s) |-> s[Len(s) + 1 - i]]

RECURSIVE Concat(_)
Concat(ss) == IF ss = <<>> THEN <<>> ELSE Head(ss) \o Concat(Tail(ss))

\* The note put before the blocks when some turn was left out
note(shown, total) ==
    S_note_showing \o ToDecimal(shown) \o S_note_of \o ToDecimal(total)
        \o S_note_total

\* compact_history, the blocks left in the order they were pushed.
compact_history_NoReverse(hist) ==
    LET walk == contexts_to_include(hist, Len(hist),
                                    estimate_tokens(S_header), <<>>)
    IN  IF walk.panics THEN Panics
        ELSE Text(S_header
                  \o (IF Len(walk.blocks) < Len(hist)
                      THEN note(Len(walk.blocks), Len(hist)) ELSE <<>>)
                  \o Concat(walk.blocks))

\* compact_history, the running estimate starting from zero instead of
\* the estimate of the header.
compact_history_HeaderFree(hist) ==
    LET walk == contexts_to_include(hist, Len(hist), 0, <<>>)
    IN  IF walk.panics THEN Panics
        ELSE Text(S_header
                  \o (IF Len(walk.blocks) < Len(hist)
                      THEN note(Len(walk.blocks), Len(hist)) ELSE <<>>)
                  \o Concat(Reverse(walk.blocks)))

compact_history(hist) ==
    LET walk == contexts_to_include(hist, Len(hist),
                                    estimate_tokens(S_header), <<>>)
    IN  IF walk.panics THEN Panics
        ELSE Text(S_header
                  \o (IF Len(walk.blocks) < Len(hist)
                      THEN note(Len(walk.blocks), Len(hist)) ELSE <<>>)
                  \o Concat(Reverse(walk.blocks)))

(***************************************************************************)
(* Histories the compaction is followed on.                                *)
(***************************************************************************)
\* Longest history given to compact_history.
MaxTurns == 3

Rep(c, n) == [i \in 1..n |-> c]

S_hi == <<"h","i">>

\* A prompt whose block is 5979 bytes long: 1494 tokens, three bytes over.
LongPrompt == Rep("p", 5971)

\* Outputs of exactly 200 and of 201 bytes, one of 150 two-byte characters,
\* and one whose byte 200 falls inside a two-byte character.
Output200 == Rep("x", 200)
Output201 == Rep("x", 201)
OutputWide == Rep(EACUTE, 150)
OutputSplit == Rep("x", 199) \o << EACUTE, "x" >>

Turns ==
    { ConversationContext(S_hi, << <<"a">> >>, << <<"o">> >>),
      ConversationContext(S_hi, <<>>, <<>>),
      ConversationContext(S_hi, << <<"a">>, <<"b">> >>, << <<>>, Output201 >>),
      ConversationContext(S_hi, << <<"a">> >>, << Output200 >>),
      ConversationContext(LongPrompt, <<>>, <<>>),
      ConversationContext(S_hi, << <<"a">> >>, << OutputWide >>),
      ConversationContext(S_hi, << <<"a">> >>, << OutputSplit >>) }

Histories == SeqsUpTo(Turns, MaxTurns)

(***************************************************************************)
(* estimate_total_context_size, and the note run_interactive_mode prints   *)
(* after it has pushed the turn of a direct command or of a model turn.    *)
(***************************************************************************)
Min(a, b) == IF a < b THEN a ELSE b

RECURSIVE SumLen(_)
SumLen(strs) ==
    IF strs = <<>> THEN 0 ELSE str_len(Head(strs)) + SumLen(Tail(strs))

\* output.len().min(500), added up
RECURSIVE SumCapped(_)
SumCapped(strs) ==
    IF strs = <<>> THEN 0
    ELSE Min(str_len(Head(strs)), 500) + SumCapped(Tail(strs))

RECURSIVE estimate_total_context_size(_)
estimate_total_context_size(hist) ==
    IF hist = <<>> THEN 0
    ELSE str_len(Head(hist).prompt) + SumLen(Head(hist).commands)
            + SumCapped(Head(hist).outputs)
            + estimate_total_context_size(Tail(hist))

\* "Note: Context is being automatically compacted to fit within token
\* limits." is printed when the estimate of the history is over the limit.
CheckContextSize(hist, log) ==
    IF estimate_total_context_size(hist) > MAX_CONTEXT_TOKENS * TOKEN_ESTIMATE_RATIO
    THEN Append(log, Event("notice", 0, <<>>))
    ELSE log

(***************************************************************************)
(* process_prompt_with_context: returning, and the for loop over commands. *)
(***************************************************************************)
\* ReturnTo, pushing a turn whatever the Result is.
ReturnTo_PushOnErr(res, cs, ec, co, log) ==
    /\ result' = res
    /\ commands' = cs
    /\ executed_commands' = ec
    /\ command_outputs' = co
    /\ running' = NoCommand
    /\ IF mode = "interactive"
       THEN LET pushed == Append(history, ConversationContext(input, ec, co))
            IN  /\ pc' = "readline"
                /\ ret' = ret
                /\ history' = pushed
                /\ io' = CheckContextSize(pushed, log)
       ELSE /\ pc' = "done"
            /\ ret' = res
            /\ history' = history
            /\ io' = log
    /\ UNCHANGED << mode, cwd, input, idx, diverted >>

\* What the caller does with the Result: run_interactive_mode pushes a turn
\* on Ok and prints the error on Err, then reads the next line; in single
\* prompt mode run returns it.
ReturnTo(res, cs, ec, co, log) ==
    /\ result' = res
    /\ commands' = cs
    /\ executed_commands' = ec
    /\ command_outputs' = co
    /\ running' = NoCommand
    /\ IF mode = "interactive"
       THEN LET pushed == Append(history, ConversationContext(input, ec, co))
            IN  /\ pc' = "readline"
                /\ ret' = ret
                /\ IF res = "Ok"
                   THEN /\ history' = pushed
                        /\ io' = CheckContextSize(pushed, log)
                   ELSE /\ history' = history
                        /\ io' = log
       ELSE /\ pc' = "done"
            /\ ret' = res
            /\ history' = history
            /\ io' = log
    /\ UNCHANGED << mode, cwd, input, idx, diverted >>

\* confirm: print the run> prompt for commands[j] and wait for a line.
IssuePrompt(cs, j, div, ec, co, log) ==
    /\ pc' = "confirm"
    /\ commands' = cs
    /\ idx' = j
    /\ diverted' = div
    /\ executed_commands' = ec
    /\ command_outputs' = co
    /\ running' = NoCommand
    /\ io' = Append(log, Event("prompt", j, cs[j]))
    /\ UNCHANGED << mode, ret, history, cwd, input, result >>

\* The first line at or after position i that is not a comment.
NextProposed(cs, i) ==
    LET rest == { j \in i..Len(cs) : ~is_comment(cs[j]) }
    IN  IF rest = {} THEN Len(cs) + 1
        ELSE CHOOSE j \in rest : \A k \in rest : j <= k

\* The for loop, from position i: comments are printed, the next command is
\* put to the user, and the function returns Ok when no line is left.
Proceed(cs, i, ec, co, log) ==
    LET j == NextProposed(cs, i)
    IN  IF j > Len(cs)
        THEN ReturnTo("Ok", cs, ec, co, log)
        ELSE IssuePrompt(cs, j, FALSE, ec, co, log)

\* Hand a command to the Shell Runner and wait for it to exit.
Spawn(cmd, kind, ec, log) ==
    /\ pc' = "shell"
    /\ running' = [cmd |-> cmd, kind |-> kind]
    /\ executed_commands' = ec
    /\ io' = Append(log, Event(kind, idx, cmd))
    /\ UNCHANGED << mode, ret, history, cwd, input, commands, idx, diverted,
                    command_outputs, result >>

Answered(resp) == Append(io, Event("answer", idx, resp))

\* ConfirmResponse::Yes, at the first prompt or the second
ArmYes ==
    Spawn(commands[idx], "accept", Append(executed_commands, commands[idx]),
          Answered("Yes"))

\* ArmNo, going on to the next command as Skip does.
ArmNo_Continues ==
    Proceed(commands, idx + 1, executed_commands, command_outputs, Answered("No"))

\* ConfirmResponse::No
ArmNo ==
    ReturnTo("Ok", commands, executed_commands, command_outputs, Answered("No"))

\* ArmSkip, running the command as Yes does.
ArmSkip_Runs ==
    Spawn(commands[idx], "accept", Append(executed_commands, commands[idx]),
          Answered("Skip"))

\* ArmSkip, returning as No does.
ArmSkip_Returns ==
    ReturnTo("Ok", commands, executed_commands, command_outputs, Answered("Skip"))

\* ArmSkip, putting the same command to the user once more.
ArmSkip_Reprompts ==
    IssuePrompt(commands, idx, diverted, executed_commands, command_outputs,
                Answered("Skip"))

\* ConfirmResponse::Skip
ArmSkip ==
    Proceed(commands, idx + 1, executed_commands, command_outputs, Answered("Skip"))

\* "Returning to original command:" and the second confirm
Reprompt(log) ==
    IssuePrompt(commands, idx, TRUE, executed_commands, command_outputs, log)

\* ArmInstruct, recording the side command among the executed commands.
ArmInstruct_Records(custom_command) ==
    IF custom_command # <<>>
    THEN Spawn(custom_command, "side", Append(executed_commands, custom_command),
               Answered("Instruct"))
    ELSE Reprompt(Answered("Instruct"))

\* ConfirmResponse::Instruct(custom_command) at the first prompt
ArmInstruct(custom_command) ==
    IF custom_command # <<>>
    THEN Spawn(custom_command, "side", executed_commands, Answered("Instruct"))
    ELSE Reprompt(Answered("Instruct"))

\* ArmNestedInstruct, putting the original command once more.
ArmNestedInstruct_Reprompts == Reprompt(Answered("Instruct"))

\* ConfirmResponse::Instruct(_) at the second prompt
ArmNestedInstruct ==
    Proceed(commands, idx + 1, executed_commands, command_outputs,
            Answered("Instruct"))

\* The number of unrecognized tokens given so far for this input line.
InvalidCount == Cardinality({ k \in 1..Len(io) : io[k].ev = "invalid" })

\* confirm: the wildcard arm prints the hint and calls confirm again
ArmInvalid ==
    /\ InvalidCount < MaxInvalid
    /\ IssuePrompt(commands, idx, diverted, executed_commands, command_outputs,
                   Append(io, Event("invalid", idx, <<>>)))

\* confirm: the ConfirmResponse of each line that the run> prompt can read
ResponseTo == [line \in ConfirmLines |-> confirm_response(line)]

\* confirm: the side command of each line that the enter> prompt can read
CustomCommand == [line \in EnterLines |-> Trim(line)]

\* confirm: what the line read at the run> prompt leads to
ReadConfirmLine(line) ==
    LET resp == ResponseTo[line]
    IN  \/ resp = "Yes" /\ ArmYes
        \/ resp = "No" /\ ArmNo
        \/ resp = "Skip" /\ ArmSkip
        \/ /\ resp = "Instruct"
           /\ pc' = "enter"
           /\ UNCHANGED << mode, ret, history, cwd, input, commands, idx,
                           diverted, executed_commands, command_outputs,
                           running, result, io >>
        \/ resp = "Invalid" /\ ArmInvalid

\* confirm: one line read at the run> prompt
ConfirmLine ==
    /\ pc = "confirm"
    /\ UNCHANGED << read, context, content >>
    /\ \E line \in ConfirmLines : ReadConfirmLine(line)

\* confirm: what the line read at the enter> prompt leads to
ReadEnterLine(line) ==
    IF diverted THEN ArmNestedInstruct ELSE ArmInstruct(CustomCommand[line])

\* confirm: the line read at the enter> prompt, which completes Instruct
EnterLine ==
    /\ pc = "enter"
    /\ UNCHANGED << read, context, content >>
    /\ \E line \in EnterLines : ReadEnterLine(line)

\* confirm: flushing stdout or reading stdin fails, and ? returns the error
ConfirmIoError ==
    /\ pc \in { "confirm", "enter" }
    /\ UNCHANGED << read, context, content >>
    /\ ReturnTo("IoError", commands, executed_commands, command_outputs, io)

(***************************************************************************)
(* run_command_with_output: the spawned command exits.                     *)
(***************************************************************************)
\* The errors run_command_with_output returns: the shell could not be
\* spawned or written through, or the command exited with a non-zero status.
ShellErrors == { "IoError", "ExecError" }

Exited(status) == Append(io, Event("exit", idx, status))

\* A command accepted at a confirmation exits with status zero.
AcceptedExitsOk ==
    /\ pc = "shell" /\ running.kind = "accept"
    /\ UNCHANGED << read, context, content >>
    /\ \E out \in Outputs :
         Proceed(commands, idx + 1, executed_commands,
                 Append(command_outputs, out), Exited("ok"))

\* AcceptedFails, reporting the error and going on with the loop.
AcceptedFails_Continues ==
    /\ pc = "shell" /\ running.kind = "accept"
    /\ UNCHANGED << read, context, content >>
    /\ \E err \in ShellErrors :
         Proceed(commands, idx + 1, executed_commands, command_outputs, Exited(err))

\* AcceptedFails, returning Ok with what the earlier commands gave.
AcceptedFails_ReturnsOk ==
    /\ pc = "shell" /\ running.kind = "accept"
    /\ UNCHANGED << read, context, content >>
    /\ \E err \in ShellErrors :
         ReturnTo("Ok", commands, executed_commands, command_outputs, Exited(err))

\* A command accepted at a confirmation fails: ? returns the error.
AcceptedFails ==
    /\ pc = "shell" /\ running.kind = "accept"
    /\ UNCHANGED << read, context, content >>
    /\ \E err \in ShellErrors :
         ReturnTo(err, commands, executed_commands, command_outputs, Exited(err))

\* The side command of a diversion exits with status zero; its output is
\* dropped.
SideExitsOk ==
    /\ pc = "shell" /\ running.kind = "side"
    /\ UNCHANGED << read, context, content >>
    /\ \E out \in Outputs : Reprompt(Exited("ok"))

\* The side command of a diversion fails: ? returns the error.
SideFails ==
    /\ pc = "shell" /\ running.kind = "side"
    /\ UNCHANGED << read, context, content >>
    /\ \E err \in ShellErrors :
         ReturnTo(err, commands, executed_commands, command_outputs, Exited(err))

\* DirectExitsOk, the input recorded as the command instead of the command
\* that was run.
DirectExitsOk_RecordsInput ==
    /\ pc = "shell" /\ running.kind = "direct"
    /\ UNCHANGED << read, context, content >>
    /\ \E out \in Outputs :
         LET pushed == Append(history,
                           ConversationContext(input, <<input>>, <<out>>))
         IN  /\ history' = pushed
             /\ io' = CheckContextSize(pushed, Exited("ok"))
    /\ pc' = "readline"
    /\ running' = NoCommand
    /\ UNCHANGED << mode, ret, cwd, input, commands, idx, diverted,
                    executed_commands, command_outputs, result >>

\* DirectExitsOk, the turn put before the others.
DirectExitsOk_Prepends ==
    /\ pc = "shell" /\ running.kind = "direct"
    /\ UNCHANGED << read, context, content >>
    /\ \E out \in Outputs :
         LET pushed == << ConversationContext(input, <<running.cmd>>, <<out>>) >>
                           \o history
         IN  /\ history' = pushed
             /\ io' = CheckContextSize(pushed, Exited("ok"))
    /\ pc' = "readline"
    /\ running' = NoCommand
    /\ UNCHANGED << mode, ret, cwd, input, commands, idx, diverted,
                    executed_commands, command_outputs, result >>

\* run_interactive_mode: a direct command exits with status zero, and the
\* turn is pushed.
DirectExitsOk ==
    /\ pc = "shell" /\ running.kind = "direct"
    /\ UNCHANGED << read, context, content >>
    /\ \E out \in Outputs :
         LET pushed == Append(history,
                           ConversationContext(input, <<running.cmd>>, <<out>>))
         IN  /\ history' = pushed
             /\ io' = CheckContextSize(pushed, Exited("ok"))
    /\ pc' = "readline"
    /\ running' = NoCommand
    /\ UNCHANGED << mode, ret, cwd, input, commands, idx, diverted,
                    executed_commands, command_outputs, result >>

\* DirectFails, returning the error with ? instead of printing it.
DirectFails_Exits ==
    /\ pc = "shell" /\ running.kind = "direct"
    /\ UNCHANGED << read, context, content >>
    /\ \E err \in ShellErrors : io' = Exited(err) /\ ret' = err
    /\ pc' = "done"
    /\ running' = NoCommand
    /\ UNCHANGED << mode, history, cwd, input, commands, idx, diverted,
                    executed_commands, command_outputs, result >>

\* run_interactive_mode: a direct command fails; "Command failed" is printed.
DirectFails ==
    /\ pc = "shell" /\ running.kind = "direct"
    /\ UNCHANGED << read, context, content >>
    /\ \E err \in ShellErrors : io' = Exited(err)
    /\ pc' = "readline"
    /\ running' = NoCommand
    /\ UNCHANGED << mode, ret, history, cwd, input, commands, idx, diverted,
                    executed_commands, command_outputs, result >>

(***************************************************************************)
(* process_prompt_with_context: the model call returns.                    *)
(***************************************************************************)
\* The errors returned before any command is proposed: the transport
\* failed, the status was not a success, the body was not the expected
\* JSON, choices was empty, or parse_commands gave no line.
ModelErrors == { "NetworkError", "ApiError", "JsonError", "NoChoices" }

ModelFails ==
    /\ pc = "model"
    /\ UNCHANGED << read, context, content >>
    /\ \E err \in ModelErrors : ReturnTo(err, <<>>, <<>>, <<>>, io)

\* ModelResponds, taking a response without lines for a conversational one.
ModelResponds_EmptyOk ==
    /\ pc = "model"
    /\ \E lines \in Contents :
         LET cs == parse_commands(lines)
         IN  /\ content' = lines
             /\ UNCHANGED << read, context >>
             /\ IF all_conversational(cs)
                THEN ReturnTo("Ok", cs, <<>>, <<>>, io)
                ELSE Proceed(cs, 1, <<>>, <<>>, io)

\* The reply arrives: its lines are parsed, an empty list is an error, a list
\* of comments only is printed and returned, and otherwise the for loop starts.
ModelResponds ==
    /\ pc = "model"
    /\ \E lines \in Contents :
         LET cs == parse_commands(lines)
         IN  /\ content' = lines
             /\ UNCHANGED << read, context >>
             /\ IF cs = <<>>
                THEN ReturnTo("NoResponse", cs, <<>>, <<>>, io)
                ELSE IF all_conversational(cs)
                THEN ReturnTo("Ok", cs, <<>>, <<>>, io)
                ELSE Proceed(cs, 1, <<>>, <<>>, io)

(***************************************************************************)
(* run_interactive_mode: one iteration of the loop, up to the point where  *)
(* it next waits.                                                          *)
(***************************************************************************)
\* The locals of the previous iteration are gone.
FreshLine(inp) ==
    /\ input' = inp
    /\ content' = <<>>
    /\ commands' = <<>>
    /\ idx' = 0
    /\ diverted' = FALSE
    /\ executed_commands' = <<>>
    /\ command_outputs' = <<>>
    /\ result' = "none"

\* let input = input.trim()
TrimmedInputs == { Trim(line) : line \in InputLines }

Reading == mode = "interactive" /\ pc = "readline"

\* Room left in the history the model follows.
Room == Len(history) < MaxHistory

\* ReadInterrupted, leaving the loop as Ctrl-D does.
ReadInterrupted_Breaks ==
    /\ Reading
    /\ read' = "Interrupted"
    /\ FreshLine(<<>>)
    /\ io' = <<>> /\ running' = NoCommand /\ context' = <<>>
    /\ pc' = "done" /\ ret' = "Ok"
    /\ UNCHANGED << mode, history, cwd >>

\* Ctrl-C at the prompt: continue
ReadInterrupted ==
    /\ Reading
    /\ read' = "Interrupted"
    /\ FreshLine(<<>>)
    /\ io' = <<>> /\ running' = NoCommand /\ context' = <<>>
    /\ UNCHANGED << mode, pc, ret, history, cwd >>

\* Ctrl-D at the prompt: break, and the function returns Ok
ReadEof ==
    /\ Reading
    /\ read' = "Eof"
    /\ FreshLine(<<>>)
    /\ io' = <<>> /\ running' = NoCommand /\ context' = <<>>
    /\ pc' = "done" /\ ret' = "Ok"
    /\ UNCHANGED << mode, history, cwd >>

\* Any other ReadlineError: return Err(err.into())
ReadError ==
    /\ Reading
    /\ read' = "Error"
    /\ FreshLine(<<>>)
    /\ io' = <<>> /\ running' = NoCommand /\ context' = <<>>
    /\ pc' = "done" /\ ret' = "ReadlineError"
    /\ UNCHANGED << mode, history, cwd >>

\* An input that is empty once trimmed: continue
ReadEmpty ==
    /\ Reading
    /\ \E inp \in TrimmedInputs : inp = <<>> /\ FreshLine(inp) /\ read' = "Line"
    /\ io' = <<>> /\ running' = NoCommand /\ context' = <<>>
    /\ UNCHANGED << mode, pc, ret, history, cwd >>

\* q, exit, quit: break
Quit ==
    /\ Reading
    /\ \E inp \in TrimmedInputs :
         inp \in { S_q, S_exit, S_quit } /\ FreshLine(inp) /\ read' = "Line"
    /\ io' = <<>> /\ running' = NoCommand /\ context' = <<>>
    /\ pc' = "done" /\ ret' = "Ok"
    /\ UNCHANGED << mode, history, cwd >>

\* "." prints the working directory and pushes a pwd turn
ShortcutPwd ==
    /\ Reading /\ Room
    /\ \E inp \in TrimmedInputs : inp = S_dot /\ FreshLine(inp) /\ read' = "Line"
    /\ \E shown \in { cwd, S_unknown } :
         history' = Append(history,
             ConversationContext(S_pwd, <<S_pwd>>, <<shown>>))
    /\ io' = <<>> /\ running' = NoCommand /\ context' = <<>>
    /\ UNCHANGED << mode, pc, ret, cwd >>

\* ".." changes to the parent directory and pushes a cd .. turn, or reports
\* the failure
ShortcutCdUp ==
    /\ Reading /\ Room
    /\ \E inp \in TrimmedInputs : inp = S_dotdot /\ FreshLine(inp) /\ read' = "Line"
    /\ \/ \E d \in Dirs :
            /\ cwd' = d
            /\ history' = Append(history,
                   ConversationContext(S_cd_dotdot, <<S_cd_dotdot>>,
                                       <<S_changed_to \o d>>))
       \/ UNCHANGED << cwd, history >>
    /\ io' = <<>> /\ running' = NoCommand /\ context' = <<>>
    /\ UNCHANGED << mode, pc, ret >>

\* "clear": the history is emptied after the clear program has run; if it
\* cannot be spawned, ? returns the error from run_interactive_mode
Clear ==
    /\ Reading
    /\ \E inp \in TrimmedInputs : inp = S_clear /\ FreshLine(inp) /\ read' = "Line"
    /\ \/ history' = <<>> /\ UNCHANGED << pc, ret >>
       \/ pc' = "done" /\ ret' = "IoError" /\ UNCHANGED history
    /\ io' = <<>> /\ running' = NoCommand /\ context' = <<>>
    /\ UNCHANGED << mode, cwd >>

\* "finder": open . is run, and its failure only reported
Finder ==
    /\ Reading
    /\ \E inp \in TrimmedInputs : inp = S_finder /\ FreshLine(inp) /\ read' = "Line"
    /\ io' = <<>> /\ running' = NoCommand /\ context' = <<>>
    /\ UNCHANGED << mode, pc, ret, history, cwd >>

\* None of the shortcuts above.
IsShortcut(inp) ==
    inp \in { <<>>, S_q, S_exit, S_quit, S_dot, S_dotdot, S_clear, S_finder }

\* Of some lines, the inputs that reach the test of line 292 and pass it.
DirectOf(lines) ==
    { Trim(line) : line \in
        { l \in lines : ~IsShortcut(Trim(l)) /\ is_safe_direct_command(Trim(l)) } }

\* Of some lines, the inputs that reach the test of line 292 and fail it.
ModelOf(lines) ==
    { Trim(line) : line \in
        { l \in lines : ~IsShortcut(Trim(l)) /\ ~is_safe_direct_command(Trim(l)) } }

DirectInputs == DirectOf(InputLines)
ModelInputs == ModelOf(InputLines)

\* A direct input that starts with cd: the directory is changed in process
ChangeDir(inputs) ==
    /\ Reading
    /\ \E inp \in inputs :
         /\ StartsWith(Trim(inp), S_cd)
         /\ FreshLine(inp) /\ read' = "Line"
         /\ \/ \E d \in Dirs :
                 /\ cwd' = d
                 /\ history' = Append(history,
                        ConversationContext(inp, <<inp>>, <<S_changed_to \o d>>))
            \/ UNCHANGED << cwd, history >>
    /\ io' = <<>> /\ running' = NoCommand /\ context' = <<>>
    /\ UNCHANGED << mode, pc, ret >>

DirectCd == Room /\ ChangeDir(DirectInputs)

\* Any other direct input is run by the Shell Runner, rewritten
RunDirect(inputs) ==
    /\ Reading
    /\ \E inp \in inputs :
         /\ ~StartsWith(Trim(inp), S_cd)
         /\ FreshLine(inp) /\ read' = "Line"
         /\ running' = [cmd |-> command_to_run(inp), kind |-> "direct"]
         /\ io' = << Event("direct", 0, command_to_run(inp)) >>
    /\ pc' = "shell"
    /\ context' = <<>>
    /\ UNCHANGED << mode, ret, history, cwd >>

DirectCommand == Room /\ RunDirect(DirectInputs)

\* process_prompt_with_context is called with the history: the context
\* message is built when the history is not empty, and the request is sent.
\* A panic of compact_history ends the process.
AskModel(inputs) ==
    /\ Reading
    /\ \E inp \in inputs : FreshLine(inp) /\ read' = "Line"
    /\ io' = <<>> /\ running' = NoCommand
    /\ LET built == IF history = <<>> THEN Text(<<>>) ELSE compact_history(history)
       IN  /\ context' = built.text
           /\ IF built.panics
              THEN pc' = "done" /\ ret' = "Panic"
              ELSE pc' = "model" /\ ret' = ret
    /\ UNCHANGED << mode, history, cwd >>

SendPrompt == AskModel(ModelInputs)

\* Everything else goes to the model
ModelPrompt == Room /\ SendPrompt

Next ==
    \/ ReadInterrupted \/ ReadEof \/ ReadError \/ ReadEmpty \/ Quit
    \/ ShortcutPwd \/ ShortcutCdUp \/ Clear \/ Finder
    \/ DirectCd \/ DirectCommand \/ ModelPrompt
    \/ ModelFails \/ ModelResponds
    \/ ConfirmLine \/ EnterLine \/ ConfirmIoError
    \/ AcceptedExitsOk \/ AcceptedFails \/ SideExitsOk \/ SideFails
    \/ DirectExitsOk \/ DirectFails

Spec == Init /\ [][Next]_vars

(***************************************************************************)
(* Single prompt mode: run is given a prompt, process_prompt calls         *)
(* process_prompt_with_context once with an empty history, and run returns *)
(* its Result.                                                             *)
(***************************************************************************)
InitSingle == Init /\ mode = "single"

NextSingle ==
    \/ ModelFails \/ ModelResponds
    \/ ConfirmLine \/ EnterLine \/ ConfirmIoError
    \/ AcceptedExitsOk \/ AcceptedFails \/ SideExitsOk \/ SideFails

SpecSingle == InitSingle /\ [][NextSingle]_vars

(***************************************************************************)
(* Single prompt mode when nothing blocks for ever: the blocking calls of  *)
(* process_prompt_with_context are the model request, the wait for a       *)
(* spawned shell, and read_line in confirm.  The request returns, every    *)
(* command exits, and the user goes on typing until a line is one that     *)
(* confirm recognizes.                                                     *)
(***************************************************************************)
\* The lines confirm matches with an arm other than the wildcard.
RecognizedLines == { line \in ConfirmLines : ResponseTo[line] # "Invalid" }

RecognizedAnswer ==
    /\ pc = "confirm"
    /\ UNCHANGED << read, context, content >>
    /\ \E line \in RecognizedLines : ReadConfirmLine(line)

ModelReturns == ModelFails \/ ModelResponds

CommandExits == AcceptedExitsOk \/ AcceptedFails \/ SideExitsOk \/ SideFails

SpecSingleFair ==
    /\ InitSingle /\ [][NextSingle]_vars
    /\ WF_vars(ModelReturns)
    /\ WF_vars(CommandExits)
    /\ WF_vars(RecognizedAnswer)
    /\ WF_vars(EnterLine)

(***************************************************************************)
(* compact_history on its own: the session has some history, and the next  *)
(* input line goes to the model.                                           *)
(***************************************************************************)
InitCompact ==
    /\ mode = "interactive" /\ pc = "readline" /\ input = <<>>
    /\ read = "none"
    /\ ret = "none"
    /\ history \in Histories
    /\ cwd = InitialDir
    /\ context = <<>>
    /\ content = <<>>
    /\ commands = <<>>
    /\ idx = 0
    /\ diverted = FALSE
    /\ executed_commands = <<>>
    /\ command_outputs = <<>>
    /\ running = NoCommand
    /\ result = "none"
    /\ io = <<>>

NextCompact == SendPrompt

SpecCompact == InitCompact /\ [][NextCompact]_vars

(***************************************************************************)
(* The note on the context size: the session has some history, direct      *)
(* commands are run and their turns pushed, and then an input goes to the  *)
(* model with the history compacted.                                       *)
(***************************************************************************)
MaxOutputs == 12

Output500 == Rep("x", 500)

\* A turn of many accepted commands that each printed 500 bytes.
HeavyTurn ==
    ConversationContext(S_hi, [k \in 1..MaxOutputs |-> <<"a">>],
                        [k \in 1..MaxOutputs |-> Output500])

NoticeHistories == SeqsUpTo(Turns \cup { HeavyTurn }, MaxTurns - 1)

InitNotice ==
    /\ mode = "interactive" /\ pc = "readline" /\ input = <<>>
    /\ read = "none"
    /\ ret = "none"
    /\ history \in NoticeHistories
    /\ cwd = InitialDir
    /\ context = <<>>
    /\ content = <<>>
    /\ commands = <<>>
    /\ idx = 0
    /\ diverted = FALSE
    /\ executed_commands = <<>>
    /\ command_outputs = <<>>
    /\ running = NoCommand
    /\ result = "none"
    /\ io = <<>>

NoticeDirect == Len(history) < MaxTurns /\ RunDirect(DirectInputs)

NextNotice == NoticeDirect \/ DirectExitsOk \/ DirectFails \/ SendPrompt

SpecNotice == InitNotice /\ [][NextNotice]_vars

(***************************************************************************)
(* The classifier on its own: one input line is read and routed.           *)
(***************************************************************************)
S_args == <<" ","-","x">>

\* Each allowlist entry bare and with an argument, in small and in capital
\* letters.
AllowlistLines ==
    UNION { { c, ToUpper(c), c \o S_args, ToUpper(c \o S_args) } : c \in safe_commands }

\* Other lines typed at the session prompt.
ExampleLines ==
    { <<" ","l","s"," ">>, <<"l","s"," ","-","a">>,
      <<"r","m"," ","-","r","f"," ","/">>,
      <<"m","y","s","c","r","i","p","t",".","p","y">>,
      <<"g","i","t"," ","p","u","s","h">>,
      <<"p","y","t","h","o","n"," ","x",".","p","y">>,
      <<"a",".","j","s">>, <<"a",".","m","j","s">>, <<"a",".","r","b">>,
      <<"a",".","s","h">>, <<"a",".","b","a","s","h">>, <<"a",".","p","l">>,
      <<"a",".","p","h","p">>, <<"a",".","t","s">>, <<"a",".","z","s","h">>,
      <<".","/","r","u","n">>, <<".","/","r","u","n",".","s","h">>,
      <<"p","y">>, S_cd, <<"c","d"," ","d">>, <<"h","i">>,
      <<"r","m"," ","x",".","p","y">> }

ClassifierLines == AllowlistLines \cup ExampleLines

ClassifiedDirect == DirectOf(ClassifierLines)
ClassifiedModel == ModelOf(ClassifierLines)

ClassifyCd == Room /\ ChangeDir(ClassifiedDirect)
ClassifyDirect == Room /\ RunDirect(ClassifiedDirect)
ClassifyModel == Room /\ AskModel(ClassifiedModel)

InitClassify == Init /\ mode = "interactive"

NextClassify == ClassifyCd \/ ClassifyDirect \/ ClassifyModel

SpecClassify == InitClassify /\ [][NextClassify]_vars

(***************************************************************************)
(* Reading the transcript io of the current input line.                    *)
(***************************************************************************)
Pos == 1..Len(io)

IsAnswer(k, resp) == io[k].ev = "answer" /\ io[k].arg = resp
IsPrompt(k, i) == io[k].ev = "prompt" /\ io[k].idx = i
IsFailure(k) == io[k].ev = "exit" /\ io[k].arg \in ShellErrors

\* An Instruct answer given at the second prompt for its command.
IsNestedInstruct(k) ==
    /\ IsAnswer(k, "Instruct")
    /\ \E j \in 1..(k - 1) : IsAnswer(j, "Instruct") /\ io[j].idx = io[k].idx

IsFirstInstruct(k) == IsAnswer(k, "Instruct") /\ ~IsNestedInstruct(k)

IsAcceptEvent(e) == e.ev = "accept"

\* The proposed commands handed to the Shell Runner, in order.
AcceptedRuns ==
    LET runs == SelectSeq(io, IsAcceptEvent)
    IN  [k \in 1..Len(runs) |-> runs[k].arg]

\* How many of them have exited with status zero.
AcceptedDone ==
    Cardinality({ k \in Pos : /\ io[k].ev = "exit" /\ io[k].arg = "ok"
                              /\ io[k - 1].ev = "accept" })

\* The turn of process_prompt_with_context is over.
Returned == pc \in { "readline", "done" }

(***************************************************************************)
(* C1: every Turn of the session history has as many outputs as commands,  *)
(* whichever path appended it and whatever the confirmations and exit      *)
(* statuses were.                                                          *)
(***************************************************************************)
C1_OutputsMatchCommands ==
    \A k \in 1..Len(history) :
        Len(history[k].outputs) = Len(history[k].commands)

\* A model-routed turn is recorded after a diversion, an accepted command
\* and a skipped one.
C1_Witness ==
    /\ mode = "interactive" /\ pc = "readline" /\ result = "Ok"
    /\ input \in ModelInputs
    /\ Len(history) >= 1
    /\ Len(history[Len(history)].commands) = 1
    /\ \E k \in Pos : IsAnswer(k, "Instruct")
    /\ \E k \in Pos : IsAnswer(k, "Skip")

(***************************************************************************)
(* C2: a proposed command is handed to the Shell Runner only when the      *)
(* prompt issued for that very command was answered Accept, and no         *)
(* proposed command is run twice in a turn.                                *)
(***************************************************************************)
C2_RunOnlyOnAccept ==
    /\ \A k \in Pos :
         io[k].ev = "accept" =>
            /\ k >= 3
            /\ IsAnswer(k - 1, "Yes") /\ io[k - 1].idx = io[k].idx
            /\ IsPrompt(k - 2, io[k].idx) /\ io[k - 2].arg = io[k].arg
            /\ io[k].arg = commands[io[k].idx]
            /\ \A j \in Pos : (io[j].ev = "accept" /\ io[j].idx = io[k].idx) => j = k
    /\ (pc = "shell" /\ running.kind = "accept") =>
            /\ io[Len(io)].ev = "accept"
            /\ io[Len(io)].arg = running.cmd

\* The second command is run after an unrecognized token, the first having
\* been skipped.
C2_Witness ==
    /\ pc = "shell" /\ running.kind = "accept" /\ idx = 2
    /\ \E k \in Pos : io[k].ev = "invalid" /\ io[k].idx = 2
    /\ \E k \in Pos : IsAnswer(k, "Skip") /\ io[k].idx = 1

(***************************************************************************)
(* C3: a Decline ends the turn: nothing is prompted for or run after it,   *)
(* and the turn returns Ok with exactly the commands and outputs collected *)
(* before it.                                                              *)
(***************************************************************************)
C3_DeclineEndsTurn ==
    \A k \in Pos :
        IsAnswer(k, "No") =>
            /\ k = Len(io)
            /\ Returned
            /\ result = "Ok"
            /\ executed_commands = AcceptedRuns
            /\ Len(command_outputs) = Len(executed_commands)
            /\ AcceptedDone = Len(executed_commands)

\* Two commands proposed, answered Accept then Decline: the first has run,
\* the second has not, and one command and one output are returned.
C3_Witness ==
    /\ Returned /\ result = "Ok"
    /\ Len(commands) = 2
    /\ Len(io) = 6
    /\ IsAnswer(2, "Yes") /\ io[3].ev = "accept" /\ io[3].idx = 1
    /\ IsPrompt(5, 2) /\ IsAnswer(6, "No")
    /\ executed_commands = << commands[1] >>
    /\ Len(command_outputs) = 1

(***************************************************************************)
(* C4: a Skip leaves the command unexecuted and unrecorded, leaves what    *)
(* was collected unchanged, and goes on to the next proposed line, the     *)
(* turn completing with Ok when there is none.                             *)
(***************************************************************************)
SkipStep ==
    /\ Len(io') > Len(io)
    /\ io'[Len(io) + 1].ev = "answer" /\ io'[Len(io) + 1].arg = "Skip"

C4_SkipState ==
    \A k \in Pos :
        IsAnswer(k, "Skip") =>
            /\ \A j \in Pos : io[j].ev = "accept" => io[j].idx # io[k].idx
            /\ LET n == NextProposed(commands, io[k].idx + 1)
               IN  IF n <= Len(commands)
                   THEN k < Len(io) /\ IsPrompt(k + 1, n)
                   ELSE k = Len(io) /\ Returned /\ result = "Ok"

\* C4: in every state and at every Skip step, a skipped command is neither
\* run nor recorded, and the loop goes on to the next proposed line.
C4_SkipContinues ==
    /\ []C4_SkipState
    /\ [][SkipStep =>
            /\ executed_commands' = executed_commands
            /\ command_outputs' = command_outputs
            /\ commands' = commands
            /\ IF NextProposed(commands, idx + 1) <= Len(commands)
               THEN pc' = "confirm" /\ idx' = NextProposed(commands, idx + 1)
                    /\ ~diverted'
               ELSE pc' \in { "readline", "done" } /\ result' = "Ok"
         ]_vars

\* The first of two commands is skipped, and the second is put to the user
\* with nothing collected.
C4_Witness ==
    /\ pc = "confirm" /\ idx = 2 /\ executed_commands = <<>>
    /\ Len(io) = 3 /\ IsAnswer(2, "Skip") /\ IsPrompt(3, 2)

(***************************************************************************)
(* C5: a Divert runs its side command, when there is one, before the       *)
(* prompt for the original command is issued again, and the side command   *)
(* and its output are never recorded in the turn.  The prompt is issued    *)
(* again when the side command exits with status zero (or is empty); when  *)
(* it fails, the error ends the turn.                                      *)
(***************************************************************************)
C5_DivertRunsSideThenReprompts ==
    /\ executed_commands = AcceptedRuns
    /\ Len(command_outputs) = AcceptedDone
    /\ \A k \in Pos :
         IsFirstInstruct(k) =>
            /\ k < Len(io)
            /\ \/ IsPrompt(k + 1, io[k].idx)
               \/ /\ io[k + 1].ev = "side" /\ io[k + 1].arg # <<>>
                  /\ \/ /\ k + 1 = Len(io)
                        /\ pc = "shell"
                        /\ running = [cmd |-> io[k + 1].arg, kind |-> "side"]
                     \/ /\ k + 3 <= Len(io)
                        /\ io[k + 2].ev = "exit" /\ io[k + 2].arg = "ok"
                        /\ IsPrompt(k + 3, io[k].idx)
                        /\ io[k + 3].arg = commands[io[k].idx]
                     \/ /\ k + 2 = Len(io)
                        /\ IsFailure(k + 2)
                        /\ Returned /\ result = io[k + 2].arg

\* The side command pwd has run, the prompt was issued again and answered
\* Accept: only the original command is recorded.
C5_Witness ==
    /\ pc = "shell" /\ running.kind = "accept"
    /\ Len(io) = 7
    /\ IsFirstInstruct(2) /\ io[3].ev = "side" /\ io[3].arg = S_pwd
    /\ io[4].ev = "exit" /\ IsPrompt(5, 1) /\ IsAnswer(6, "Yes")
    /\ executed_commands = << commands[1] >>

\* C5, as written: the prompt is issued again after every Divert.
C5_RepromptAfterEveryDivert ==
    \A k \in Pos :
        IsFirstInstruct(k) =>
            \/ pc = "shell" /\ running.kind = "side" /\ Len(io) = k + 1
            \/ \E j \in (k + 1)..Len(io) : IsPrompt(j, io[k].idx)

(***************************************************************************)
(* C6: a Divert given at the second prompt is treated as Skip: nothing is  *)
(* run for it, the original command is neither run nor recorded, the       *)
(* command is not put to the user a third time, and the loop goes on to    *)
(* the next proposed command.                                              *)
(***************************************************************************)
\* The prompts for command i that are not repeats after an unrecognized token.
FreshPrompts(i) ==
    { j \in Pos : IsPrompt(j, i) /\ (j = 1 \/ io[j - 1].ev # "invalid") }

\* C6: the diversion depth is at most one, and a second Divert is a Skip.
C6_NestedDivertIsSkip ==
    /\ \A i \in 1..Len(commands) : Cardinality(FreshPrompts(i)) <= 2
    /\ \A k \in Pos :
         IsNestedInstruct(k) =>
            /\ \A j \in Pos : io[j].ev = "accept" => io[j].idx # io[k].idx
            /\ \A j \in (k + 1)..Len(io) : io[j].idx # io[k].idx
            /\ Cardinality({ j \in Pos : io[j].ev = "side" /\ io[j].idx = io[k].idx }) <= 1
            /\ executed_commands = AcceptedRuns
            /\ LET n == NextProposed(commands, io[k].idx + 1)
               IN  IF n <= Len(commands)
                   THEN k < Len(io) /\ IsPrompt(k + 1, n)
                   ELSE k = Len(io) /\ Returned /\ result = "Ok"

\* The first command was diverted twice, its side command having run once,
\* and the second command is now put to the user.
C6_Witness ==
    /\ pc = "confirm" /\ idx = 2 /\ ~diverted
    /\ \E k \in Pos : IsNestedInstruct(k) /\ io[k].idx = 1
    /\ \E k \in Pos : io[k].ev = "side" /\ io[k].idx = 1
    /\ executed_commands = <<>>

(***************************************************************************)
(* C7: a non-zero exit status of a command run on Accept, or of a side     *)
(* command, is returned as the error of the turn: nothing more is prompted *)
(* for or run in that turn (the original command is not put again after a  *)
(* failed side command), and the session is not ended: in interactive mode *)
(* the loop waits for the next input line.                                 *)
(***************************************************************************)
IsTurnExecError(k) ==
    /\ io[k].ev = "exit" /\ io[k].arg = "ExecError"
    /\ io[k - 1].ev \in { "accept", "side" }

\* C7, as amended: a non-zero exit ends the turn with the error, not the
\* session.
C7_ExecErrorEndsTurnNotSession ==
    \A k \in Pos :
        IsTurnExecError(k) =>
            /\ k = Len(io)
            /\ result = "ExecError"
            /\ IF mode = "interactive"
               THEN pc = "readline" /\ ret = "none"
               ELSE pc = "done" /\ ret = "ExecError"

\* The first of two accepted commands exits non-zero in interactive mode.
C7_Witness ==
    /\ mode = "interactive" /\ pc = "readline"
    /\ Len(commands) = 2 /\ ~is_comment(commands[2])
    /\ Len(io) = 4 /\ io[3].ev = "accept" /\ IsTurnExecError(4)

\* C7, as written: after the failure the turn goes on, the next
\* proposed command is offered, and after a failed side command the
\* original command is put again.
C7_FailureDoesNotAbortTurn ==
    \A k \in Pos :
        IsTurnExecError(k) =>
            IF io[k - 1].ev = "side"
            THEN k < Len(io) /\ IsPrompt(k + 1, io[k].idx)
            ELSE LET n == NextProposed(commands, io[k].idx + 1)
                 IN  n <= Len(commands) => (k < Len(io) /\ IsPrompt(k + 1, n))

(***************************************************************************)
(* C8: an ExecError ends the commands of the current turn and never the    *)
(* session: nothing is prompted for or run after it, and in interactive    *)
(* mode the loop goes on to read the next input line.                      *)
(***************************************************************************)
C8_ExecErrorNeverEndsSession ==
    \A k \in Pos :
        (io[k].ev = "exit" /\ io[k].arg = "ExecError") =>
            /\ k = Len(io)
            /\ running = NoCommand
            /\ mode = "interactive" => (pc = "readline" /\ ret = "none")

\* A direct command has exited non-zero and the loop reads again.
C8_Witness ==
    /\ mode = "interactive" /\ pc = "readline" /\ ret = "none"
    /\ input \in DirectInputs
    /\ Len(io) = 2 /\ io[1].ev = "direct"
    /\ io[2].ev = "exit" /\ io[2].arg = "ExecError"

(***************************************************************************)
(* C9: in interactive mode the loop ends only on end-of-input, on a quit   *)
(* command, or on a failure of the line reader; no error met while a line  *)
(* is processed ends it.                                                   *)
(***************************************************************************)
C9_OnlyEofQuitOrReaderFailureEndSession ==
    (mode = "interactive" /\ pc = "done") =>
        \/ ret = "ReadlineError"
        \/ ret = "Ok" /\ input \in { <<>>, S_q, S_exit, S_quit }

(***************************************************************************)
(* C10: when the model call fails, or its response has no choice or no     *)
(* line, the turn is over at once: no prompt, no shell command, no Turn    *)
(* appended, and the interactive loop waits for the next input.            *)
(***************************************************************************)
ModelFailures == ModelErrors \cup { "NoResponse" }

C10_ModelFailureState ==
    /\ result \in ModelFailures =>
          /\ io = <<>>
          /\ executed_commands = <<>> /\ command_outputs = <<>>
          /\ running = NoCommand
          /\ IF mode = "interactive"
             THEN pc = "readline" /\ ret = "none"
             ELSE pc = "done" /\ ret = result
    /\ (result = "Ok" \/ pc \in { "confirm", "enter" }) => commands # <<>>

\* C10: a failed model call prompts for nothing, runs nothing, appends no
\* Turn, and leaves the interactive loop waiting for the next line.
C10_ModelFailureAbortsTurnOnly ==
    /\ []C10_ModelFailureState
    /\ [][(pc = "model" /\ (result' \in ModelFailures \/ commands' = <<>>)) =>
             /\ result' \in ModelFailures
             /\ history' = history
             /\ cwd' = cwd
         ]_vars

\* A response without a usable line, met with one Turn in the history.
C10_Witness ==
    /\ mode = "interactive" /\ pc = "readline"
    /\ result = "NoResponse"
    /\ Len(history) = 1

(***************************************************************************)
(* C11: a reply whose non-empty lines all begin with the comment marker    *)
(* completes the turn successfully, with no confirmation prompt and no     *)
(* shell execution, and in interactive mode appends exactly one Turn with  *)
(* the prompt of the user and empty commands and outputs.                  *)
(***************************************************************************)
\* Every line of the reply that is not blank begins with #, and there is one.
CommentOnly(lines) ==
    LET nonblank == { i \in 1..Len(lines) : Trim(lines[i]) # <<>> }
    IN  /\ nonblank # {}
        /\ \A i \in nonblank : StartsWith(Trim(lines[i]), <<"#">>)

C11_CommentOnlyTurnSucceeds ==
    [][ (pc = "model" /\ CommentOnly(content')) =>
            /\ result' = "Ok"
            /\ io' = <<>>
            /\ running' = NoCommand
            /\ mode = "interactive" =>
                   history' = Append(history, ConversationContext(input, <<>>, <<>>))
      ]_vars

(***************************************************************************)
(* C12: the line read at a confirmation prompt resolves, trimmed and       *)
(* whatever its letter case, to Accept for the empty line, y and yes, to   *)
(* Decline for n and no, to Skip for s and skip, and to Divert for i and   *)
(* instruct, the next line read being the side command once trimmed; a     *)
(* line with the escape character anywhere is a Decline; any other token   *)
(* resolves to nothing and the same prompt is issued again.                *)
(***************************************************************************)
AcceptLines == { <<>>, <<NL>>, <<"y",NL>>, <<" ","Y","E","S"," ",NL>> }
DeclineLines == { <<"n",NL>>, <<"N","O",NL>> }
EscapeLines == { <<"y",ESC,NL>>, <<ESC,"i",NL>> }
SkipLines == { <<"s",NL>>, <<"S","k","i","p",NL>> }
DivertLines == { <<"i",NL>>, <<"I","n","s","t","r","u","c","t",NL>> }
OtherLines == { <<"x",NL>>, <<"y","e",NL>> }

\* The side command each line read at the enter> prompt stands for.
SideCommandOf(line) ==
    IF line = <<" ","p","w","d",NL>> THEN <<"p","w","d">> ELSE <<>>

\* The events the step adds to the transcript.
Added == SubSeq(io', Len(io) + 1, Len(io'))

C12_AtConfirm ==
    /\ \A line \in AcceptLines : ReadConfirmLine(line) =>
           /\ Added = << Event("answer", idx, "Yes"),
                         Event("accept", idx, commands[idx]) >>
           /\ pc' = "shell"
    /\ \A line \in DeclineLines \cup EscapeLines : ReadConfirmLine(line) =>
           /\ Added = << Event("answer", idx, "No") >>
           /\ pc' \in { "readline", "done" }
    /\ \A line \in SkipLines : ReadConfirmLine(line) =>
           /\ Len(Added) >= 1
           /\ Added[1] = Event("answer", idx, "Skip")
           /\ \A k \in 2..Len(Added) : Added[k].ev = "prompt" /\ Added[k].idx > idx
    /\ \A line \in DivertLines : ReadConfirmLine(line) =>
           /\ pc' = "enter"
           /\ Added = <<>>
    /\ \A line \in OtherLines : ReadConfirmLine(line) =>
           /\ Added = << Event("invalid", idx, <<>>),
                         Event("prompt", idx, commands[idx]) >>
           /\ pc' = "confirm"
           /\ UNCHANGED << commands, idx, diverted, executed_commands,
                           command_outputs, history, result >>

C12_AtEnter ==
    \A line \in EnterLines : (ReadEnterLine(line) /\ ~diverted) =>
        /\ Len(Added) >= 1
        /\ Added[1] = Event("answer", idx, "Instruct")
        /\ IF SideCommandOf(line) # <<>>
           THEN /\ Added = << Added[1], Event("side", idx, SideCommandOf(line)) >>
                /\ pc' = "shell"
                /\ running'.cmd = SideCommandOf(line)
           ELSE /\ Added = << Added[1], Event("prompt", idx, commands[idx]) >>
                /\ pc' = "confirm"

C12_ConfirmResolves ==
    [][ /\ pc = "confirm" => C12_AtConfirm
        /\ pc = "enter" => C12_AtEnter ]_vars

\* After an unrecognized token the same prompt came again, Instruct was
\* answered, and the trimmed next line is being run as the side command.
C12_Witness ==
    /\ pc = "shell" /\ running.kind = "side" /\ running.cmd = <<"p","w","d">>
    /\ Len(io) = 5
    /\ IsPrompt(1, idx) /\ io[2].ev = "invalid" /\ IsPrompt(3, idx)
    /\ io[3].arg = io[1].arg
    /\ IsAnswer(4, "Instruct") /\ io[5].ev = "side"

(***************************************************************************)
(* Reading the context message built from the history.                     *)
(***************************************************************************)
\* compact_history has returned a text for a history that is not empty.
Compacted == pc = "model" /\ history # <<>>

\* The blocks of the most recent k turns, oldest first.
RecentBlocks(k) ==
    [j \in 1..k |-> ctx_str(history[Len(history) - k + j]).text]

RECURSIVE SumTokens(_)
SumTokens(blocks) ==
    IF blocks = <<>> THEN 0
    ELSE estimate_tokens(Head(blocks)) + SumTokens(Tail(blocks))

\* The token estimate the most recent k turns add up to, header included.
TokensOfRecent(k) == estimate_tokens(S_header) + SumTokens(RecentBlocks(k))

\* The text that shows the most recent k turns of the history.
Showing(k) ==
    S_header
        \o (IF k < Len(history) THEN note(k, Len(history)) ELSE <<>>)
        \o Concat(RecentBlocks(k))

\* How many turns the context message shows.
ShownCount == CHOOSE k \in 0..Len(history) : context = Showing(k)

ExpectedOutputLine(output) ==
    IF output = <<>> THEN <<>>
    ELSE IF Len(output) > 200
    THEN S_output \o SubSeq(output, 1, 200) \o S_truncated \o <<NL>>
    ELSE S_output \o output \o <<NL>>

ExpectedBlock(ctx) ==
    S_user \o ctx.prompt \o <<NL>> \o command_lines(ctx.commands)
        \o Concat([j \in 1..Len(ctx.outputs) |-> ExpectedOutputLine(ctx.outputs[j])])
        \o <<NL>>

C15_OutputsCutAt200Characters ==
    (mode = "interactive" /\ pc \in { "model", "done" } /\ history # <<>>) =>
        /\ ret # "Panic"
        /\ \E k \in 0..Len(history) :
               context = S_header
                   \o (IF k < Len(history) THEN note(k, Len(history)) ELSE <<>>)
                   \o Concat([j \in 1..k |->
                                 ExpectedBlock(history[Len(history) - k + j])])

(***************************************************************************)
(* Reading where an input line was routed.                                 *)
(***************************************************************************)
\* The input is being run by the Shell Runner without a model call.
RoutedDirect == pc = "shell" /\ running.kind = "direct"

\* The input was sent to the model.
RoutedToModel == pc = "model" /\ running = NoCommand

(***************************************************************************)
(* C16: ls is direct and run as ls -l; ls -a is direct and run as it is;   *)
(* rm -rf / is not direct; myscript.py is direct and run as                *)
(* python3 myscript.py; git status is direct; git push is not direct.      *)
(***************************************************************************)
C16_ClassifierExamples ==
    /\ input = S_ls => (RoutedDirect /\ running.cmd = S_ls_l)
    /\ input = <<"l","s"," ","-","a">> =>
           (RoutedDirect /\ running.cmd = <<"l","s"," ","-","a">>)
    /\ input = <<"r","m"," ","-","r","f"," ","/">> => RoutedToModel
    /\ input = <<"m","y","s","c","r","i","p","t",".","p","y">> =>
           /\ RoutedDirect
           /\ running.cmd = <<"p","y","t","h","o","n","3"," ",
                              "m","y","s","c","r","i","p","t",".","p","y">>
    /\ input = <<"g","i","t"," ","s","t","a","t","u","s">> => RoutedDirect
    /\ input = <<"g","i","t"," ","p","u","s","h">> => RoutedToModel

\* myscript.py is being run through python3.
C16_Witness ==
    /\ input = <<"m","y","s","c","r","i","p","t",".","p","y">>
    /\ RoutedDirect
    /\ running.cmd = <<"p","y","t","h","o","n","3"," ",
                       "m","y","s","c","r","i","p","t",".","p","y">>

(***************************************************************************)
(* C17: every allowlist entry is direct typed bare and typed with          *)
(* arguments after a space, in any letter case.                            *)
(***************************************************************************)
C17_AllowlistAcceptsArguments ==
    \A c \in safe_commands :
        input \in { c, ToUpper(c), c \o S_args, ToUpper(c \o S_args) } => RoutedDirect

(***************************************************************************)
(* C18: a direct input is run changed in two cases only: ls becomes ls -l, *)
(* and an input without a space that ends in .py, .js, .mjs, .rb, .sh,     *)
(* .bash, .pl or .php becomes the interpreter, a space, and the input;     *)
(* every other direct input is run as typed, and nothing is run for an     *)
(* input that is not direct.                                               *)
(***************************************************************************)
Interpreters ==
    { [ext |-> <<".","p","y">>, bin |-> <<"p","y","t","h","o","n","3">>],
      [ext |-> <<".","j","s">>, bin |-> <<"n","o","d","e">>],
      [ext |-> <<".","m","j","s">>, bin |-> <<"n","o","d","e">>],
      [ext |-> <<".","r","b">>, bin |-> <<"r","u","b","y">>],
      [ext |-> <<".","s","h">>, bin |-> <<"b","a","s","h">>],
      [ext |-> <<".","b","a","s","h">>, bin |-> <<"b","a","s","h">>],
      [ext |-> <<".","p","l">>, bin |-> <<"p","e","r","l">>],
      [ext |-> <<".","p","h","p">>, bin |-> <<"p","h","p">>] }

ExpectedCommand(inp) ==
    LET found == { r \in Interpreters : EndsWith(inp, r.ext) }
    IN  IF inp = S_ls THEN S_ls_l
        ELSE IF ~ContainsChar(inp, " ") /\ found # {}
        THEN (CHOOSE r \in found : TRUE).bin \o Space \o inp
        ELSE inp

C18_RewriteOnlyLsAndBareScripts ==
    /\ RoutedDirect => running.cmd = ExpectedCommand(input)
    /\ pc = "model" => running = NoCommand

\* a.mjs is being run through node.
C18_Witness ==
    /\ input = <<"a",".","m","j","s">>
    /\ RoutedDirect
    /\ running.cmd = <<"n","o","d","e"," ","a",".","m","j","s">>

(***************************************************************************)
(* C19: the session history is append-only: a step leaves it as it is, or  *)
(* appends one Turn at its end, which ends the iteration of the loop, or,  *)
(* for the input clear only, empties it.                                   *)
(***************************************************************************)
C19_HistoryAppendOnly ==
    [][ \/ history' = history
        \/ /\ Len(history') = Len(history) + 1
           /\ SubSeq(history', 1, Len(history)) = history
           /\ pc' = "readline"
        \/ /\ history' = <<>>
           /\ pc = "readline" /\ read' = "Line" /\ input' = S_clear
      ]_vars

\* A direct command was recorded after a turn that was recorded before it.
C19_Witness ==
    /\ pc = "readline" /\ read = "Line"
    /\ Len(history) = 2
    /\ history[1].prompt = S_pwd
    /\ input = S_ls
    /\ history[2] = ConversationContext(S_ls, << S_ls_l >>, << <<"o">> >>)

(***************************************************************************)
(* C20: an interrupt while the loop waits for a line aborts that line      *)
(* only: history and working directory stay, nothing is run, and the loop  *)
(* waits again; end-of-input there, and the inputs q, exit and quit, end   *)
(* the session with a successful return; an empty line is ignored.         *)
(***************************************************************************)
\* Nothing happened in this iteration, and the loop waits for a line again.
Ignored ==
    /\ UNCHANGED << history, cwd >>
    /\ pc' = "readline" /\ ret' = "none"
    /\ running' = NoCommand /\ io' = <<>>

\* run_interactive_mode has returned Ok(()).
EndedOk == pc' = "done" /\ ret' = "Ok" /\ UNCHANGED << history, cwd >>

C20_InterruptLineEofSession ==
    [][ pc = "readline" =>
            /\ read' = "Interrupted" => Ignored
            /\ read' = "Eof" => EndedOk
            /\ (read' = "Line" /\ input' \in { S_q, S_exit, S_quit }) => EndedOk
            /\ (read' = "Line" /\ input' = <<>>) => Ignored
      ]_vars

\* With a turn in the history, an interrupt has left the loop waiting.
C20_Witness ==
    /\ read = "Interrupted"
    /\ pc = "readline" /\ ret = "none"
    /\ Len(history) = 1
    /\ cwd # InitialDir

(***************************************************************************)
(* C21: a direct input that is not a cd is run by the Shell Runner with no *)
(* model call and no confirmation prompt; when it exits with status zero   *)
(* one Turn is appended, with the input as prompt, the command that was    *)
(* run as its one command and the captured output as its one output; when  *)
(* it fails no Turn is appended and the loop reads the next line.          *)
(***************************************************************************)
\* The direct inputs of the session that are not a cd.
DirectRuns == { inp \in DirectInputs : ~StartsWith(inp, S_cd) }

C21_Routed ==
    (pc = "readline" /\ read' = "Line" /\ input' \in DirectRuns) =>
        /\ pc' = "shell"
        /\ running' = [cmd |-> ExpectedCommand(input'), kind |-> "direct"]
        /\ io' = << Event("direct", 0, running'.cmd) >>
        /\ content' = <<>> /\ context' = <<>> /\ commands' = <<>>
        /\ UNCHANGED << history, cwd >>

C21_Exited ==
    (pc = "shell" /\ running.kind = "direct") =>
        /\ pc' = "readline" /\ ret' = "none"
        /\ Len(io') = 2 /\ io'[2].ev = "exit"
        /\ content' = <<>> /\ context' = <<>> /\ result' = "none"
        /\ IF io'[2].arg = "ok"
           THEN \E out \in Outputs :
                    history' = Append(history,
                        ConversationContext(input, << running.cmd >>, << out >>))
           ELSE history' = history

C21_DirectRunRecorded == [][ C21_Routed /\ C21_Exited ]_vars

\* a.py was run through python3 with no prompt, and its Turn is recorded.
C21_Witness ==
    /\ pc = "readline" /\ read = "Line"
    /\ input = <<"a",".","p","y">>
    /\ Len(io) = 2 /\ io[1].ev = "direct" /\ io[2].arg = "ok"
    /\ history # <<>>
    /\ history[Len(history)] =
           ConversationContext(input,
               << <<"p","y","t","h","o","n","3"," ","a",".","p","y">> >>,
               << <<"o">> >>)

(***************************************************************************)
(* C22: a model-routed turn completes when the model call returns, every   *)
(* spawned command exits and the user ends up answering each prompt with a *)
(* recognized token: an unrecognized token only repeats the current        *)
(* prompt, a proposed command gets at most two resolved confirmations, the *)
(* second only after a Divert, and the proposed lines are taken in         *)
(* response order with no return to an earlier one.                        *)
(***************************************************************************)
\* The resolved confirmations of the command at position i.
Answers(i) == { k \in Pos : io[k].ev = "answer" /\ io[k].idx = i }

C22_AtMostTwoAnswers ==
    \A i \in 1..Len(commands) :
        /\ Cardinality(Answers(i)) <= 2
        /\ \A j, k \in Answers(i) : j < k => IsAnswer(j, "Instruct")

C22_PromptsInOrder ==
    \A j, k \in Pos :
        (j < k /\ io[j].ev = "prompt" /\ io[k].ev = "prompt") =>
            io[j].idx <= io[k].idx

C22_InvalidRepeatsPrompt ==
    (\E k \in (Len(io) + 1)..Len(io') : io'[k].ev = "invalid") =>
        /\ pc = "confirm" /\ pc' = "confirm"
        /\ Added = << Event("invalid", idx, <<>>),
                      Event("prompt", idx, commands[idx]) >>
        /\ UNCHANGED << commands, idx, diverted, executed_commands,
                        command_outputs, history, result, ret >>

C22_TurnCompletes ==
    /\ [] (C22_AtMostTwoAnswers /\ C22_PromptsInOrder)
    /\ [][ C22_InvalidRepeatsPrompt /\ idx' >= idx ]_vars
    /\ <> (pc = "done")

\* The turn is over after an unrecognized token, a Divert with its side
\* command, and a second confirmation for the first of two commands.
C22_Witness ==
    /\ pc = "done" /\ ret = "Ok" /\ Len(commands) = 2
    /\ \E k \in Pos : io[k].ev = "invalid"
    /\ \E k \in Pos : io[k].ev = "side" /\ io[k].idx = 1
    /\ Cardinality(Answers(1)) = 2
    /\ Cardinality(Answers(2)) = 1

(***************************************************************************)
(* C23: the note on automatic compaction agrees with compaction: when the  *)
(* note is shown after a turn is recorded, compact_history on that history *)
(* omits at least one turn, and when compact_history omits a turn the note *)
(* was shown for that history.                                             *)
(***************************************************************************)
\* The last iteration recorded a turn, and this one calls the model.
RecordedThenAsked ==
    /\ pc = "readline" /\ pc' = "model"
    /\ \E k \in Pos : io[k].ev = "exit" /\ io[k].arg = "ok"

NoticeShown == \E k \in Pos : io[k].ev = "notice"

\* The context message built in this step leaves a turn of the history out.
OmitsTurn == \E k \in 0..(Len(history) - 1) : context' = Showing(k)

\* The note was shown and every turn is in the message, as for two turns of
\* twelve long outputs each; or a turn is left out and no note was shown, as
\* for two long questions answered in words.
C23_NoticeAgreesWithCompaction ==
    [][ RecordedThenAsked =>
            /\ NoticeShown => OmitsTurn
            /\ OmitsTurn => NoticeShown ]_vars

(***************************************************************************)
(* C24: in interactive mode, when an accepted command or the side command  *)
(* of a Divert fails during a model-routed turn, no Turn is appended: the  *)
(* history is what it was before the input, also when earlier commands of  *)
(* the same response succeeded.                                            *)
(***************************************************************************)
\* process_prompt_with_context is running for the input of this iteration.
InTurn ==
    /\ mode = "interactive"
    /\ \/ pc \in { "model", "confirm", "enter" }
       \/ pc = "shell" /\ running.kind \in { "accept", "side" }

\* This step is the failure of the spawned command.
CommandFailed ==
    /\ pc = "shell"
    /\ Len(io') > Len(io)
    /\ io'[Len(io) + 1].ev = "exit" /\ io'[Len(io) + 1].arg \in ShellErrors

C24_FailedTurnNotRecorded ==
    [][ /\ (InTurn /\ pc' # "readline") => history' = history
        /\ (InTurn /\ CommandFailed) =>
              /\ history' = history
              /\ pc' = "readline" /\ ret' = "none"
              /\ result' \in ShellErrors ]_vars

\* The second command of a response failed after the first had succeeded,
\* and the history is still empty.
C24_Witness ==
    /\ mode = "interactive" /\ pc = "readline"
    /\ result \in ShellErrors
    /\ Len(executed_commands) = 2 /\ Len(command_outputs) = 1
    /\ AcceptedDone = 1
    /\ IsFailure(Len(io))
    /\ history = <<>>

(***************************************************************************)
(* C25: every input that has a space and is classified direct begins with  *)
(* an allowlist entry or one of the commands tested one by one (in any     *)
(* letter case), with an interpreter and a space, or with ./ ; an input    *)
(* whose first word is none of these goes to the model and is confirmed.   *)
(***************************************************************************)
BeginsWithKnownCommand(inp) ==
    \/ \E c \in safe_commands \cup special_commands : StartsWith(ToLower(inp), c)
    \/ \E prefix \in script_prefixes : StartsWith(inp, prefix)

\* The line read was taken by the branch of the direct commands.
TakenAsDirect == RoutedDirect \/ (pc = "readline" /\ read = "Line")

C25_DirectWithSpaceBeginsKnown ==
    (TakenAsDirect /\ ContainsChar(input, " ")) => BeginsWithKnownCommand(input)

(***************************************************************************)
(* C26: when stdin is at its end at a confirmation prompt, read_line gives *)
(* no character and confirm resolves to Accept as for an empty line: the   *)
(* pending command is executed and recorded; the end of input is never a   *)
(* Decline and is not reported as an error.                                *)
(***************************************************************************)
\* What read_line leaves in the buffer at the end of input, and for Enter.
EofLine == <<>>
EmptyLine == <<NL>>

C26_AtEof ==
    (pc = "confirm" /\ ReadConfirmLine(EofLine)) =>
        /\ ReadConfirmLine(EmptyLine)
        /\ Added = << Event("answer", idx, "Yes"),
                      Event("accept", idx, commands[idx]) >>
        /\ pc' = "shell"
        /\ running' = [cmd |-> commands[idx], kind |-> "accept"]
        /\ executed_commands' = Append(executed_commands, commands[idx])
        /\ UNCHANGED << ret, result, command_outputs, history >>

C26_AcceptedRecorded ==
    (pc = "shell" /\ running.kind = "accept" /\ io'[Len(io) + 1].arg = "ok") =>
        /\ \E out \in Outputs : command_outputs' = Append(command_outputs, out)
        /\ executed_commands' = executed_commands
        /\ executed_commands[Len(executed_commands)] = running.cmd

C26_EofAccepts == [][ C26_AtEof /\ C26_AcceptedRecorded ]_vars

\* The one proposed command was accepted with nothing typed, has run, and
\* the turn returned Ok with the command and its output.
C26_Witness ==
    /\ pc = "done" /\ ret = "Ok"
    /\ Len(commands) = 1
    /\ Len(io) = 4
    /\ IsPrompt(1, 1) /\ IsAnswer(2, "Yes") /\ io[3].ev = "accept"
    /\ io[4].ev = "exit" /\ io[4].arg = "ok"
    /\ executed_commands = commands
    /\ Len(command_outputs) = 1

====
